---- MODULE Spec2Model ----
(***************************************************************************)
(* A model of neverthrow-child-process: the error classifier mapNodeError, *)
(* the error classes, and the wrappers exec, execFile, execSync,           *)
(* execFileSync, spawnSync, spawn, fork and waitForExit.                   *)
(*                                                                         *)
(* JavaScript values are records [t, s, n]: t is the type tag, s the       *)
(* content of a string or buffer (a sequence of tokens: a token is a       *)
(* piece of text that the model never splits), n the value of a number.    *)
(* Objects (raw failures and the ProcessError instances) are records of    *)
(* one shape, JsObject, so that a ProcessError can itself be classified.   *)
(***************************************************************************)
EXTENDS Integers, Sequences, FiniteSets, TLC

VARIABLES
    \* the classifier called on its own
    raw,        \* the raw failure handed to mapNodeError / thrown by a primitive
    command,    \* the command (or file, or module path) argument
    args,       \* the argument list argument
    mapped,     \* what mapNodeError returned, NotYet before the call
    \* exec, execFile, execSync, execFileSync
    xOp,        \* which wrapper is called
    xOutcome,   \* what the primitive does: "ok" or "fail" (with raw)
    xResult,    \* the wrapper's (awaited) result
    \* waitForExit on one handle
    wSubscribed,  \* waitForExit was called: its listeners are on the handle
    wPromise,     \* the inner promise of waitForExit
    wResult,      \* the awaited ResultAsync of waitForExit
    wLog,         \* the notifications the handle emitted, in order
    wSince,       \* how many of wLog were emitted before waitForExit subscribed
    \* spawn and fork
    sOp,          \* "spawn" or "fork"
    sOpts,        \* streamOptions and whether the handle exposes each stream
    sPromise,     \* the promise built by the executor of spawn / fork
    sResult,      \* the awaited ResultAsync of spawn / fork
    child,        \* the handle: "none", "running", "failed", "exited"
    exitPromise,  \* the termination outcome promise of the SpawnResult
    chunks,       \* [stdout, stderr]: the chunks buffered by the data listeners
    capture,      \* [stdout, stderr]: the capture promises
    emitted,      \* [stdout, stderr]: every chunk each stream emitted, in order
    ended,        \* [stdout, stderr]: the stream has signalled end-of-data
    sFirstExit,   \* the first exit notification the handle emitted, or NoNote
    sExits,       \* how many exit notifications the handle emitted
    sErrors,      \* how many error notifications the handle emitted
    \* spawnSync
    syncReturns,  \* what the primitive under spawnSync does: its result, or a throw
    syncResult,   \* the Result spawnSync returns
    \* two calls in flight on two handles
    tCall,        \* per handle: the call in flight on it, "none" before the call
    tPromise,     \* per closure: exitPromise (spawn) or the inner promise (waitForExit)
    tChunks,      \* per closure: the chunks buffered by the stdout data listener
    tCapture,     \* per closure: the stdout capture promise
    tFirstNote,   \* per handle: the first notification it emitted after the call
    tFirstExit,   \* per handle: the first exit notification it emitted after the call
    tEmitted,     \* per handle: every chunk its stdout emitted, in order
    tEnded        \* per handle: its stdout has signalled end-of-data

varsClassifier == <<raw, command, args, mapped>>
varsExec == <<xOp, xOutcome, xResult>>
varsWait == <<wSubscribed, wPromise, wResult, wLog, wSince>>
varsSpawn == <<sOp, sOpts, sPromise, sResult, child, exitPromise, chunks, capture,
               emitted, ended, sFirstExit, sExits, sErrors>>
varsSync == <<syncReturns, syncResult>>
varsTwo == <<tCall, tPromise, tChunks, tCapture, tFirstNote, tFirstExit, tEmitted,
             tEnded>>
vars == <<varsClassifier, varsExec, varsWait, varsSpawn, varsSync, varsTwo>>

(***************************************************************************)
(* Bounds of the model.                                                    *)
(***************************************************************************)
\* the longest message, in tokens, a raw failure carries
MaxMsgLen == 2
\* the most notifications a handle emits in one run
MaxNotifications == 3
\* the most chunks the two streams of a handle emit together in one run
MaxChunks == 2

(***************************************************************************)
(* JavaScript values.                                                      *)
(***************************************************************************)
Absent == [t |-> "absent", s |-> <<>>, n |-> 0]
Undefined == [t |-> "undefined", s |-> <<>>, n |-> 0]
Null == [t |-> "null", s |-> <<>>, n |-> 0]
Str(s) == [t |-> "string", s |-> s, n |-> 0]
Num(n) == [t |-> "number", s |-> <<>>, n |-> n]
Buf(s) == [t |-> "buffer", s |-> s, n |-> 0]
Arr(s) == [t |-> "array", s |-> s, n |-> 0]
True == [t |-> "boolean", s |-> <<>>, n |-> 1]

\* reading a property: an absent property reads as undefined
Get(v) == IF v.t = "absent" THEN Undefined ELSE v

\* the `in` operator: the property exists, whatever its value
In(v) == v.t # "absent"

\* JavaScript truthiness of a value
Truthy(v) ==
    CASE v.t \in {"absent", "undefined", "null"} -> FALSE
      [] v.t = "string" -> v.s # <<>>
      [] v.t = "number" -> v.n # 0
      [] OTHER -> TRUE

\* a ?? b
Nullish(v) == v.t \in {"absent", "undefined", "null"}
Coalesce(a, b) == IF Nullish(a) THEN b ELSE a

\* a || b
OrElse(a, b) == IF Truthy(a) THEN a ELSE b

\* String.prototype.includes on token sequences: needle is a contiguous part
Includes(s, needle) ==
    \E i \in 0..(Len(s) - Len(needle)) :
        \A j \in 1..Len(needle) : s[i + j] = needle[j]

\* String.prototype.startsWith
StartsWith(s, prefix) ==
    /\ Len(prefix) <= Len(s)
    /\ \A j \in 1..Len(prefix) : s[j] = prefix[j]

\* the decimal digits of a number, as String(n) / a template literal prints it
Digit == <<"0", "1", "2", "3", "4", "5", "6", "7", "8", "9">>
RECURSIVE NatToString(_)
NatToString(n) ==
    IF n < 10 THEN <<Digit[n + 1]>>
    ELSE NatToString(n \div 10) \o <<Digit[(n % 10) + 1]>>
NumToString(n) == IF n < 0 THEN <<"-">> \o NatToString(-n) ELSE NatToString(n)

(***************************************************************************)
(* Buffers hold bytes. Text is UTF-8: the byte "a" is a character by       *)
(* itself, the bytes "c3" "a9" together are the one character "e'", and a  *)
(* lead or continuation byte on its own decodes to the replacement         *)
(* character.                                                              *)
(***************************************************************************)
Bytes == {"a", "c3", "a9"}
RECURSIVE Utf8Decode(_)
Utf8Decode(b) ==
    IF b = <<>> THEN <<>>
    ELSE IF Head(b) = "c3" /\ Len(b) >= 2 /\ b[2] = "a9"
         THEN <<"e'">> \o Utf8Decode(Tail(Tail(b)))
    ELSE IF Head(b) \in {"c3", "a9"} THEN <<"?">> \o Utf8Decode(Tail(b))
    ELSE <<Head(b)>> \o Utf8Decode(Tail(b))

\* value?.toString(): undefined for null/undefined, the text otherwise
OptToString(v) ==
    CASE Nullish(v) -> Undefined
      [] v.t = "buffer" -> Str(Utf8Decode(v.s))
      [] v.t = "number" -> Str(NumToString(v.n))
      [] OTHER -> Str(v.s)

(***************************************************************************)
(* Objects.                                                                *)
(***************************************************************************)
\* a plain object with no property set; cause is <<>> or <<the cause>>
JsObject ==
    [kind |-> "object", isError |-> FALSE, cls |-> "Object", str |-> <<>>,
     name |-> Absent, message |-> Absent, command |-> Absent, args |-> Absent,
     signal |-> Absent, code |-> Absent, exitCode |-> Absent, status |-> Absent,
     stdout |-> Absent, stderr |-> Absent, killed |-> Absent, timeout |-> Absent,
     cause |-> <<>>]

\* the primitives null and undefined, and a bare string, as raw failures
RawNull == [JsObject EXCEPT !.kind = "null"]
RawUndefined == [JsObject EXCEPT !.kind = "undefined"]
RawString(s) == [JsObject EXCEPT !.kind = "string", !.str = s]

\* String(error) of the fallback
StringOf(error) ==
    CASE error.kind = "null" -> <<"null">>
      [] error.kind = "undefined" -> <<"undefined">>
      [] error.kind = "string" -> error.str
      [] error.isError /\ Get(error.message).t = "string" ->
            IF error.message.s = <<>> THEN <<"Error">>
            ELSE <<"Error", ": ">> \o error.message.s
      [] error.isError -> <<"Error">>
      [] OTHER -> <<"[object Object]">>

\* the value a throw inside the classifier would leave: no ProcessError at all
Thrown == [JsObject EXCEPT !.kind = "thrown", !.cls = "TypeError"]

(***************************************************************************)
(* The error classes. A parameter property is set to the value passed,     *)
(* undefined included; cause is <<>> when no cause is passed.              *)
(***************************************************************************)
ErrorObject(name, message) ==
    [JsObject EXCEPT !.isError = TRUE, !.cls = name, !.name = Str(<<name>>),
                     !.message = message]

ProcessNotFoundErrorNoArgs(message, cmd, as, cause) ==
    [ErrorObject("ProcessNotFoundError", message) EXCEPT
        !.command = cmd, !.cause = cause]
ProcessNotFoundError(message, cmd, as, cause) ==
    [ErrorObject("ProcessNotFoundError", message) EXCEPT
        !.command = cmd, !.args = as, !.cause = cause]

PermissionDeniedError(message, cmd, as, cause) ==
    [ErrorObject("PermissionDeniedError", message) EXCEPT
        !.command = cmd, !.args = as, !.cause = cause]

ProcessTimeoutError(message, cmd, as, timeout, cause) ==
    [ErrorObject("ProcessTimeoutError", message) EXCEPT
        !.command = cmd, !.args = as, !.timeout = timeout, !.cause = cause]

ProcessKilledError(message, cmd, as, signal, cause) ==
    [ErrorObject("ProcessKilledError", message) EXCEPT
        !.command = cmd, !.args = as, !.signal = signal, !.killed = True,
        !.cause = cause]

NonZeroExitError(message, exitCode, cmd, as, stdout, stderr, cause) ==
    [ErrorObject("NonZeroExitError", message) EXCEPT
        !.exitCode = exitCode, !.command = cmd, !.args = as,
        !.stdout = stdout, !.stderr = stderr, !.cause = cause]

InvalidArgumentError(message, cmd, as, cause) ==
    [ErrorObject("InvalidArgumentError", message) EXCEPT
        !.command = cmd, !.args = as, !.cause = cause]

SpawnError(message, cmd, as, code, cause) ==
    [ErrorObject("SpawnError", message) EXCEPT
        !.command = cmd, !.args = as, !.code = code, !.cause = cause]

MaxBufferExceededError(message, cmd, as, cause) ==
    [ErrorObject("MaxBufferExceededError", message) EXCEPT
        !.command = cmd, !.args = as, !.cause = cause]

UnknownError(message, cause) ==
    [ErrorObject("UnknownError", message) EXCEPT !.cause = cause]

ProcessErrorName ==
    {"ProcessNotFoundError", "PermissionDeniedError", "ProcessTimeoutError",
     "ProcessKilledError", "NonZeroExitError", "InvalidArgumentError",
     "SpawnError", "MaxBufferExceededError", "UnknownError"}

(***************************************************************************)
(* mapNodeError.                                                           *)
(***************************************************************************)
\* typeof error === 'object' (true of null as well)
TypeofObject(error) == error.kind \in {"object", "null"}

\* the truthiness of the raw failure itself
TruthyRaw(error) ==
    CASE error.kind \in {"null", "undefined"} -> FALSE
      [] error.kind = "string" -> error.str # <<>>
      [] OTHER -> TRUE

\* error instanceof Error
InstanceofError(error) == error.kind = "object" /\ error.isError

IsStructuredNoNullCheck(error) == TypeofObject(error)
\* the guard of the structured branch: error && typeof error === 'object'
IsStructured(error) == TruthyRaw(error) /\ TypeofObject(error)

MessageOfNoDefault(error) == Get(error.message)
\* execErr.message ?? 'Unknown error'
MessageOf(error) == Coalesce(Get(error.message), Str(<<"Unknown error">>))

CodeRuleCodeBeforeSignal(error) ==
    LET signal == Get(error.signal)
        code == Get(error.code)
    IN  IF code = Str(<<"ENOENT">>) THEN "ProcessNotFoundError"
        ELSE IF Truthy(signal) THEN "ProcessKilledError"
        ELSE IF code = Str(<<"EACCES">>) \/ code = Str(<<"EPERM">>)
             THEN "PermissionDeniedError"
        ELSE IF code = Str(<<"ETIMEDOUT">>) THEN "ProcessTimeoutError"
        ELSE IF code.t = "string" /\ StartsWith(code.s, <<"ERR_CHILD_PROCESS_">>)
             THEN "SpawnError"
        ELSE IF code.t = "number" /\ code.n # 0 THEN "NonZeroExitError"
        ELSE "none"
\* the cascade on the signal and code fields: the variant of the first rule
\* that matches, "none" when none does
CodeRule(error) ==
    LET signal == Get(error.signal)
        code == Get(error.code)
    IN  IF Truthy(signal) THEN "ProcessKilledError"
        ELSE IF code = Str(<<"ENOENT">>) THEN "ProcessNotFoundError"
        ELSE IF code = Str(<<"EACCES">>) \/ code = Str(<<"EPERM">>)
             THEN "PermissionDeniedError"
        ELSE IF code = Str(<<"ETIMEDOUT">>) THEN "ProcessTimeoutError"
        ELSE IF code.t = "string" /\ StartsWith(code.s, <<"ERR_CHILD_PROCESS_">>)
             THEN "SpawnError"
        ELSE IF code.t = "number" /\ code.n # 0 THEN "NonZeroExitError"
        ELSE "none"

\* the error built for the code rule that matched
FromCodeRule(rule, message, error, cmd, as) ==
    CASE rule = "ProcessKilledError" ->
            ProcessKilledError(message, cmd, as, Get(error.signal), <<error>>)
      [] rule = "ProcessNotFoundError" ->
            ProcessNotFoundError(message, cmd, as, <<error>>)
      [] rule = "PermissionDeniedError" ->
            PermissionDeniedError(message, cmd, as, <<error>>)
      [] rule = "ProcessTimeoutError" ->
            ProcessTimeoutError(message, cmd, as, Undefined, <<error>>)
      [] rule = "SpawnError" ->
            SpawnError(message, cmd, as, Get(error.code), <<error>>)
      [] rule = "NonZeroExitError" ->
            NonZeroExitError(message, Get(error.code), cmd, as, Undefined, Undefined,
                             <<error>>)

MessageRuleSpawnFirst(m) ==
    IF Includes(m, <<"spawn">>) THEN "SpawnError"
    ELSE IF \/ Includes(m, <<"maxBuffer">>)
            \/ Includes(m, <<"stdout ", "maxBuffer">>)
            \/ Includes(m, <<"stderr ", "maxBuffer">>)
    THEN "MaxBufferExceededError"
    ELSE IF Includes(m, <<"timeout">>) \/ Includes(m, <<"ETIMEDOUT">>)
         THEN "ProcessTimeoutError"
    ELSE "none"
\* the cascade on the message of an Error instance
MessageRule(m) ==
    IF \/ Includes(m, <<"maxBuffer">>)
       \/ Includes(m, <<"stdout ", "maxBuffer">>)
       \/ Includes(m, <<"stderr ", "maxBuffer">>)
    THEN "MaxBufferExceededError"
    ELSE IF Includes(m, <<"timeout">>) \/ Includes(m, <<"ETIMEDOUT">>)
         THEN "ProcessTimeoutError"
    ELSE IF Includes(m, <<"spawn">>) THEN "SpawnError"
    ELSE "none"

\* the error built for the message rule that matched
FromMessageRule(rule, message, error, cmd, as) ==
    CASE rule = "MaxBufferExceededError" ->
            MaxBufferExceededError(message, cmd, as, <<error>>)
      [] rule = "ProcessTimeoutError" ->
            ProcessTimeoutError(message, cmd, as, Undefined, <<error>>)
      [] rule = "SpawnError" ->
            SpawnError(message, cmd, as, Undefined, <<error>>)

FallbackStringOf(error) == UnknownError(Str(StringOf(error)), <<error>>)
\* the fallback: new UnknownError(message, error)
Fallback(error) ==
    UnknownError(IF InstanceofError(error) THEN Get(error.message)
                 ELSE Str(StringOf(error)),
                 <<error>>)

\* mapNodeError(error, command, args). A property read of null or undefined,
\* and a call of includes on a message that is no string, throw.
mapNodeError(error, cmd, as) ==
    IF IsStructured(error) /\ error.kind # "object" THEN Thrown
    ELSE IF IsStructured(error) /\ CodeRule(error) # "none"
         THEN FromCodeRule(CodeRule(error), MessageOf(error), error, cmd, as)
    ELSE IF InstanceofError(error)
         THEN IF Get(error.message).t # "string" THEN Thrown
              ELSE IF MessageRule(error.message.s) # "none"
                   THEN FromMessageRule(MessageRule(error.message.s),
                                        error.message, error, cmd, as)
              ELSE Fallback(error)
    ELSE Fallback(error)

(***************************************************************************)
(* The inputs the model draws.                                             *)
(***************************************************************************)
\* every sequence over S of length at most n
SeqsUpTo(S, n) == UNION {[1..k -> S] : k \in 0..n}

\* the pieces of text a message is made of
MsgTokens == {"maxBuffer", "timeout", "ETIMEDOUT", "spawn", "x"}

\* the message field of a raw failure: a string, or missing in the three ways
StringMessages == {Str(s) : s \in SeqsUpTo(MsgTokens, MaxMsgLen)}
Messages == StringMessages \cup {Absent, Undefined, Null}

\* the signal field: missing, null, empty, or a signal name
Signals == {Absent, Null, Str(<<>>), Str(<<"SIGTERM">>)}

\* the code field: missing, null, a system code, an internal code, a code that
\* only holds the internal prefix, an exit status
Codes ==
    {Absent, Null, Str(<<"ENOENT">>), Str(<<"EACCES">>), Str(<<"EPERM">>),
     Str(<<"ETIMEDOUT">>), Str(<<"ERR_CHILD_PROCESS_", "STDIO_MAXBUFFER">>),
     Str(<<"X_", "ERR_CHILD_PROCESS_">>), Str(<<"EOTHER">>),
     Num(0), Num(1), Num(127)}

\* plain objects, and Error instances (whose message is always a string)
StructuredFailures ==
    {[JsObject EXCEPT !.signal = sg, !.code = c, !.message = m] :
        sg \in Signals, c \in Codes, m \in Messages}
    \cup
    {[JsObject EXCEPT !.isError = TRUE, !.cls = "Error",
                      !.signal = sg, !.code = c, !.message = m] :
        sg \in Signals, c \in Codes, m \in StringMessages}

RawFailures ==
    StructuredFailures
    \cup {RawNull, RawUndefined, RawString(<<>>), RawString(<<"String error">>)}

Commands == {Undefined, Str(<<"test-cmd">>)}
ArgLists == {Undefined, Arr(<<"arg1">>)}

\* mapNodeError has not been called yet
NotYet == [JsObject EXCEPT !.kind = "notyet"]

(***************************************************************************)
(* Idle values: the part of the state a specification does not use.        *)
(***************************************************************************)
IdleClassifier ==
    /\ raw = RawNull
    /\ command = Undefined
    /\ args = Undefined
    /\ mapped = NotYet

(***************************************************************************)
(* The classifier called on its own.                                       *)
(***************************************************************************)
InitClassifierInputs ==
    /\ raw \in RawFailures
    /\ command \in Commands
    /\ args \in ArgLists
    /\ mapped = NotYet

\* one call of mapNodeError(raw, command, args)
Classify ==
    /\ mapped = NotYet
    /\ mapped' = mapNodeError(raw, command, args)
    /\ UNCHANGED <<raw, command, args>>
    /\ UNCHANGED <<varsExec, varsWait, varsSpawn, varsSync, varsTwo>>

(***************************************************************************)
(* Promises and ResultAsync.                                               *)
(***************************************************************************)
SettleOverwrite(promise, outcome) == outcome
\* resolve / reject of a promise: only the first call settles it
Settle(promise, outcome) ==
    IF promise.state = "pending" THEN outcome ELSE promise

(***************************************************************************)
(* exec, execFile, execSync, execFileSync.                                 *)
(***************************************************************************)
NoError == NotYet

\* a wrapper's result: tag is "pending", "Ok" or "Err" ("rejected" when the
\* awaited ResultAsync rejects instead of yielding a Result)
XResult(tag, stdout, stderr, error) ==
    [tag |-> tag, stdout |-> stdout, stderr |-> stderr, error |-> error]
XPending == XResult("pending", Undefined, Undefined, NoError)

\* `Command failed with exit code ${n}`
CommandFailedMessage(n) ==
    Str(<<"Command failed with exit code ">> \o OptToString(n).s)

AsyncErrorFnNoDirect(error, cmd, as, asForMap) == mapNodeError(error, cmd, asForMap)
\* the errorFn of exec (lines 49-70) and of execFile (lines 100-121): `as` is
\* [] for exec and args for execFile; asForMap is what the wrapper hands to
\* mapNodeError (nothing for exec, args for execFile)
AsyncErrorFn(error, cmd, as, asForMap) ==
    IF /\ TruthyRaw(error) /\ error.kind = "object"
       /\ In(error.code) /\ error.code.t = "number" /\ error.code.n # 0
    THEN NonZeroExitError(CommandFailedMessage(error.code), error.code, cmd, as,
                          Coalesce(OptToString(Get(error.stdout)), Str(<<>>)),
                          Coalesce(OptToString(Get(error.stderr)), Str(<<>>)),
                          <<error>>)
    ELSE mapNodeError(error, cmd, asForMap)

SyncCatchNoDirect(error, cmd, as, asForMap) == mapNodeError(error, cmd, asForMap)
\* the catch block of execSync (lines 34-59) and execFileSync (lines 86-111):
\* `as` is [] for execSync and args for execFileSync; asForMap is what the
\* wrapper hands to mapNodeError (nothing for execSync, args for execFileSync)
SyncCatch(error, cmd, as, asForMap) ==
    IF /\ TruthyRaw(error) /\ error.kind = "object"
       /\ In(error.status) /\ error.status.t = "number" /\ error.status.n # 0
       /\ In(error.stdout)
    THEN NonZeroExitError(CommandFailedMessage(error.status), error.status, cmd, as,
                          OrElse(OptToString(Get(error.stdout)), Str(<<>>)),
                          OrElse(OptToString(Get(error.stderr)), Str(<<>>)),
                          <<error>>)
    ELSE mapNodeError(error, cmd, asForMap)

\* Err(e), or a rejection / an exception when building e threw
ErrOrThrow(e) ==
    IF e.kind = "thrown" THEN XResult("rejected", Undefined, Undefined, e)
    ELSE XResult("Err", Undefined, Undefined, e)

execRawOutput(outcome, error, cmd) ==
    IF outcome.kind = "ok"
    THEN XResult("Ok", outcome.stdout, outcome.stderr, NoError)
    ELSE ErrOrThrow(AsyncErrorFn(error, cmd, Arr(<<>>), Undefined))
\* exec(command, options)
exec(outcome, error, cmd) ==
    IF outcome.kind = "ok"
    THEN XResult("Ok", OptToString(outcome.stdout), OptToString(outcome.stderr),
                 NoError)
    ELSE ErrOrThrow(AsyncErrorFn(error, cmd, Arr(<<>>), Undefined))

\* execFile(file, args, options)
execFile(outcome, error, file, as) ==
    IF outcome.kind = "ok"
    THEN XResult("Ok", OptToString(outcome.stdout), OptToString(outcome.stderr),
                 NoError)
    ELSE ErrOrThrow(AsyncErrorFn(error, file, as, as))

\* execSync(command, options)
execSync(outcome, error, cmd) ==
    IF outcome.kind = "ok"
    THEN XResult("Ok", outcome.stdout, Undefined, NoError)
    ELSE ErrOrThrow(SyncCatch(error, cmd, Arr(<<>>), Undefined))

\* execFileSync(file, args, options)
execFileSync(outcome, error, file, as) ==
    IF outcome.kind = "ok"
    THEN XResult("Ok", outcome.stdout, Undefined, NoError)
    ELSE ErrOrThrow(SyncCatch(error, file, as, as))

\* what the primitive of an exec-family wrapper can do
Outputs == {Str(<<>>), Str(<<"a">>), Buf(<<"c3", "a9">>)}
XOutcomes ==
    {[kind |-> "ok", stdout |-> o, stderr |-> e] : o \in Outputs, e \in Outputs}
    \cup {[kind |-> "fail", stdout |-> Undefined, stderr |-> Undefined]}

\* the failures a primitive of the exec family throws or rejects with
ExecFailures ==
    {[JsObject EXCEPT !.isError = TRUE, !.cls = "Error", !.message = m,
                      !.signal = sg, !.code = c, !.status = st,
                      !.stdout = o, !.stderr = e] :
        m \in {Str(<<"x">>), Str(<<"timeout">>)},
        sg \in {Absent, Null, Str(<<"SIGTERM">>)},
        c \in {Absent, Null, Str(<<"ENOENT">>), Str(<<"ETIMEDOUT">>), Num(0), Num(1),
               Num(127)},
        st \in {Absent, Null, Num(0), Num(1)},
        o \in {Absent, Undefined, Null, Str(<<>>), Str(<<"a">>), Buf(<<>>),
               Buf(<<"c3", "a9">>)},
        e \in {Absent, Null, Str(<<"a">>), Buf(<<"a">>)}}
    \cup {RawNull, RawString(<<"String error">>),
          [JsObject EXCEPT !.code = Num(1), !.stdout = Str(<<"a">>)],
          [JsObject EXCEPT !.status = Num(1), !.stdout = Str(<<"a">>)]}

IdleExec ==
    /\ xOp = "none"
    /\ xOutcome = [kind |-> "none", stdout |-> Undefined, stderr |-> Undefined]
    /\ xResult = XPending

InitExec ==
    /\ xOp \in {"exec", "execFile", "execSync", "execFileSync"}
    /\ xOutcome \in XOutcomes
    /\ raw \in IF xOutcome.kind = "fail" THEN ExecFailures ELSE {RawNull}
    /\ command = Str(<<"test-cmd">>)
    /\ args \in ArgLists
    /\ mapped = NotYet
    /\ xResult = XPending

\* the call of the wrapper, to the point its result is available
ExecCall ==
    /\ xOp = "exec" /\ xResult.tag = "pending"
    /\ xResult' = exec(xOutcome, raw, command)
    /\ UNCHANGED <<xOp, xOutcome>>
    /\ UNCHANGED <<varsClassifier, varsWait, varsSpawn, varsSync, varsTwo>>

ExecFileCall ==
    /\ xOp = "execFile" /\ xResult.tag = "pending"
    /\ xResult' = execFile(xOutcome, raw, command, args)
    /\ UNCHANGED <<xOp, xOutcome>>
    /\ UNCHANGED <<varsClassifier, varsWait, varsSpawn, varsSync, varsTwo>>

ExecSyncCall ==
    /\ xOp = "execSync" /\ xResult.tag = "pending"
    /\ xResult' = execSync(xOutcome, raw, command)
    /\ UNCHANGED <<xOp, xOutcome>>
    /\ UNCHANGED <<varsClassifier, varsWait, varsSpawn, varsSync, varsTwo>>

ExecFileSyncCall ==
    /\ xOp = "execFileSync" /\ xResult.tag = "pending"
    /\ xResult' = execFileSync(xOutcome, raw, command, args)
    /\ UNCHANGED <<xOp, xOutcome>>
    /\ UNCHANGED <<varsClassifier, varsWait, varsSpawn, varsSync, varsTwo>>

(***************************************************************************)
(* spawnSync(command, args, options).                                      *)
(***************************************************************************)
\* what the primitive does: it returns a SpawnSyncReturns (error is <<>> when
\* the result has no embedded error, <<e>> otherwise), or it throws error[1]
SpawnSyncReturns(kind, error, status, signal, stdout, stderr) ==
    [kind |-> kind, error |-> error, status |-> status, signal |-> signal,
     stdout |-> stdout, stderr |-> stderr]
NoReturns == SpawnSyncReturns("none", <<>>, Null, Null, Null, Null)

\* the Result of spawnSync: Ok(value) or Err(error)
YResult(tag, value, error) == [tag |-> tag, value |-> value, error |-> error]
YPending == YResult("pending", NoReturns, NoError)

\* `Process killed by signal ${result.signal}`: the Error the signal branch builds
KilledBySignalError(signal) ==
    [JsObject EXCEPT !.isError = TRUE, !.cls = "Error",
                     !.message = Str(<<"Process killed by signal ">> \o signal.s)]

spawnSyncSignalFirst(r, cmd, as) ==
    IF r.kind = "throws"
    THEN YResult("Err", NoReturns, mapNodeError(r.error[1], cmd, as))
    ELSE IF r.error # <<>>
    THEN YResult("Err", NoReturns, mapNodeError(r.error[1], cmd, as))
    ELSE IF Truthy(r.signal)
    THEN YResult("Err", NoReturns, mapNodeError(KilledBySignalError(r.signal), cmd, as))
    ELSE IF r.status # Null /\ r.status # Num(0)
    THEN YResult("Err", NoReturns,
            NonZeroExitError(CommandFailedMessage(r.status), r.status, cmd, as,
                             OptToString(r.stdout), OptToString(r.stderr), <<>>))
    ELSE YResult("Ok", r, NoError)
spawnSyncStatusFirst(r, cmd, as) ==
    IF r.kind = "throws"
    THEN YResult("Err", NoReturns, mapNodeError(r.error[1], cmd, as))
    ELSE IF r.status # Null /\ r.status # Num(0)
    THEN YResult("Err", NoReturns,
            NonZeroExitError(CommandFailedMessage(r.status), r.status, cmd, as,
                             OptToString(r.stdout), OptToString(r.stderr), <<>>))
    ELSE IF r.error # <<>>
    THEN YResult("Err", NoReturns, mapNodeError(r.error[1], cmd, as))
    ELSE IF Truthy(r.signal)
    THEN YResult("Err", NoReturns, mapNodeError(KilledBySignalError(r.signal), cmd, as))
    ELSE YResult("Ok", r, NoError)
\* spawnSync(command, args, options): the checks on the result in the order of
\* the code (error, status, signal), and the catch block
spawnSync(r, cmd, as) ==
    IF r.kind = "throws"
    THEN YResult("Err", NoReturns, mapNodeError(r.error[1], cmd, as))
    ELSE IF r.error # <<>>
    THEN YResult("Err", NoReturns, mapNodeError(r.error[1], cmd, as))
    ELSE IF r.status # Null /\ r.status # Num(0)
    THEN YResult("Err", NoReturns,
            NonZeroExitError(CommandFailedMessage(r.status), r.status, cmd, as,
                             OptToString(r.stdout), OptToString(r.stderr), <<>>))
    ELSE IF Truthy(r.signal)
    THEN YResult("Err", NoReturns, mapNodeError(KilledBySignalError(r.signal), cmd, as))
    ELSE YResult("Ok", r, NoError)

\* the errors the primitive embeds in its result or throws
SyncErrors ==
    {[JsObject EXCEPT !.isError = TRUE, !.cls = "Error", !.code = c, !.message = m] :
        c \in {Absent, Str(<<"ENOENT">>), Str(<<"ETIMEDOUT">>)},
        m \in {Str(<<"spawn", "x">>), Str(<<"x">>)}}

\* the results of the primitive: status is null or a number, signal null or a
\* signal name, each stream null (not piped), a Buffer, or a string (encoding)
SyncReturnsSet ==
    {SpawnSyncReturns("returns", e, st, sg, o, er) :
        e \in {<<>>} \cup {<<x>> : x \in SyncErrors},
        st \in {Null, Num(0), Num(1), Num(3)},
        sg \in {Null, Str(<<"SIGTERM">>)},
        o \in {Null, Buf(<<>>), Buf(<<"c3", "a9">>), Str(<<"a">>)},
        er \in {Null, Buf(<<"a">>), Str(<<>>)}}
    \cup {SpawnSyncReturns("throws", <<x>>, Null, Null, Null, Null) : x \in SyncErrors}

IdleSync ==
    /\ syncReturns = NoReturns
    /\ syncResult = YPending

InitSync ==
    /\ syncReturns \in SyncReturnsSet
    /\ syncResult = YPending
    /\ raw = RawNull
    /\ command = Str(<<"test-cmd">>)
    /\ args \in ArgLists
    /\ mapped = NotYet

\* one call of spawnSync(command, args)
SpawnSyncCall ==
    /\ syncReturns.kind # "none" /\ syncResult.tag = "pending"
    /\ syncResult' = spawnSync(syncReturns, command, args)
    /\ UNCHANGED syncReturns
    /\ UNCHANGED <<varsClassifier, varsExec, varsWait, varsSpawn, varsTwo>>

(***************************************************************************)
(* waitForExit(child).                                                     *)
(***************************************************************************)
\* a promise of a termination outcome: fulfilled with {code, signal} or
\* rejected with an error
ExitPending == [state |-> "pending", code |-> Null, signal |-> Null, error |-> NoError]
ExitFulfilled(code, signal) ==
    [state |-> "fulfilled", code |-> code, signal |-> signal, error |-> NoError]
ExitRejected(error) ==
    [state |-> "rejected", code |-> Null, signal |-> Null, error |-> error]

\* a notification of a handle
ExitNote(code, signal) ==
    [type |-> "exit", code |-> code, signal |-> signal, error |-> NoError]
ErrorNote(error) ==
    [type |-> "error", code |-> Null, signal |-> Null, error |-> error]

OnExitSignalFirst(code, signal) ==
    IF Truthy(signal)
    THEN ExitRejected(ProcessKilledError(
            Str(<<"Process killed by signal ">> \o OptToString(signal).s),
            Undefined, Undefined, signal, <<>>))
    ELSE IF code # Null /\ code # Num(0)
    THEN ExitRejected(NonZeroExitError(
            Str(<<"Process exited with code ">> \o OptToString(code).s),
            code, Undefined, Undefined, Undefined, Undefined, <<>>))
    ELSE ExitFulfilled(code, signal)
\* the exit listener of waitForExit (lines 280-306): how it settles the promise
OnExit(code, signal) ==
    IF code # Null /\ code # Num(0)
    THEN ExitRejected(NonZeroExitError(
            Str(<<"Process exited with code ">> \o OptToString(code).s),
            code, Undefined, Undefined, Undefined, Undefined, <<>>))
    ELSE IF Truthy(signal)
    THEN ExitRejected(ProcessKilledError(
            Str(<<"Process killed by signal ">> \o OptToString(signal).s),
            Undefined, Undefined, signal, <<>>))
    ELSE ExitFulfilled(code, signal)

\* the error listener of waitForExit (lines 308-310)
OnError(error) == ExitRejected(mapNodeError(error, Undefined, Undefined))

\* the errorFn of waitForExit (lines 312-318)
WaitErrorFn(error) ==
    IF error.cls \in {"NonZeroExitError", "ProcessKilledError"} THEN error
    ELSE mapNodeError(error, Undefined, Undefined)

\* the awaited result of waitForExit
WResult(tag, code, signal, error) ==
    [tag |-> tag, code |-> code, signal |-> signal, error |-> error]
WPending == WResult("pending", Null, Null, NoError)

\* ResultAsync.fromPromise(promise, WaitErrorFn), awaited: Ok of the value,
\* Err of the mapped rejection; a rejection when the promise rejected with a
\* throw of the listener or errorFn throws
WaitFromPromise(promise) ==
    CASE promise.state = "pending" -> WPending
      [] promise.state = "fulfilled" ->
            WResult("Ok", promise.code, promise.signal, NoError)
      [] OTHER ->
            IF promise.error.kind = "thrown" \/ WaitErrorFn(promise.error).kind = "thrown"
            THEN WResult("rejected", Null, Null, Thrown)
            ELSE WResult("Err", Null, Null, WaitErrorFn(promise.error))

\* the notifications a handle emits
ExitNotes ==
    {ExitNote(c, sg) : c \in {Null, Num(0), Num(1)}, sg \in {Null, Str(<<"SIGTERM">>)}}

\* the raw errors of a handle's error notification
HandleErrors ==
    {[JsObject EXCEPT !.isError = TRUE, !.cls = "Error", !.code = c,
                      !.message = Str(<<"x">>)] :
        c \in {Absent, Str(<<"ENOENT">>), Str(<<"EACCES">>), Str(<<"ETIMEDOUT">>),
               Str(<<"ERR_CHILD_PROCESS_", "STDIO_MAXBUFFER">>), Num(1)}}
    \cup {[JsObject EXCEPT !.isError = TRUE, !.cls = "Error",
                           !.code = Str(<<"ENOENT">>),
                           !.message = Str(<<"spawn", "x", "ENOENT">>)],
          [JsObject EXCEPT !.isError = TRUE, !.cls = "Error",
                           !.signal = Str(<<"SIGTERM">>), !.message = Str(<<"x">>)]}
ErrorNotes == {ErrorNote(e) : e \in HandleErrors}

IdleWait ==
    /\ wSubscribed = FALSE
    /\ wPromise = ExitPending
    /\ wResult = WPending
    /\ wLog = <<>>
    /\ wSince = 0

InitWait == IdleWait

WaitForExitCallReplays ==
    /\ ~wSubscribed
    /\ wSubscribed' = TRUE
    /\ wSince' = Len(wLog)
    /\ wPromise' = IF wLog # <<>> /\ wLog[1].type = "exit"
                   THEN Settle(wPromise, OnExit(wLog[1].code, wLog[1].signal))
                   ELSE wPromise
    /\ wResult' = WaitFromPromise(wPromise')
    /\ UNCHANGED wLog
    /\ UNCHANGED <<varsClassifier, varsExec, varsSpawn, varsSync, varsTwo>>

\* waitForExit(child): the executor subscribes both listeners
WaitForExitCall ==
    /\ ~wSubscribed
    /\ wSubscribed' = TRUE
    /\ wSince' = Len(wLog)
    /\ UNCHANGED <<wPromise, wResult, wLog>>
    /\ UNCHANGED <<varsClassifier, varsExec, varsSpawn, varsSync, varsTwo>>

\* the handle emits exit(code, signal): the exit listener runs if subscribed,
\* and the continuation of fromPromise after it
HandleExit(note) ==
    /\ Len(wLog) < MaxNotifications
    /\ wLog' = Append(wLog, note)
    /\ wPromise' = IF wSubscribed THEN Settle(wPromise, OnExit(note.code, note.signal))
                   ELSE wPromise
    /\ wResult' = WaitFromPromise(wPromise')
    /\ UNCHANGED <<wSubscribed, wSince>>
    /\ UNCHANGED <<varsClassifier, varsExec, varsSpawn, varsSync, varsTwo>>

\* the handle emits error(raw): the error listener runs if subscribed
HandleError(note) ==
    /\ Len(wLog) < MaxNotifications
    /\ wLog' = Append(wLog, note)
    /\ wPromise' = IF wSubscribed THEN Settle(wPromise, OnError(note.error))
                   ELSE wPromise
    /\ wResult' = WaitFromPromise(wPromise')
    /\ UNCHANGED <<wSubscribed, wSince>>
    /\ UNCHANGED <<varsClassifier, varsExec, varsSpawn, varsSync, varsTwo>>

(***************************************************************************)
(* spawn(command, args, options, streamOptions) and fork(modulePath, args, *)
(* options).                                                               *)
(***************************************************************************)
\* the promise the executor of spawn / fork builds
SPending == [state |-> "pending", error |-> NoError]
SFulfilled == [state |-> "fulfilled", error |-> NoError]
SRejected(error) == [state |-> "rejected", error |-> error]

\* the awaited result of spawn / fork
SResult(tag, error) == [tag |-> tag, error |-> error]

\* ResultAsync.fromSafePromise(promise), awaited: Ok of the value; no handler is
\* put on a rejection, so a rejected promise makes the await reject
FromSafePromise(promise) ==
    CASE promise.state = "pending" -> SResult("pending", NoError)
      [] promise.state = "fulfilled" -> SResult("Ok", NoError)
      [] OTHER -> SResult("rejected", promise.error)

\* a capture promise: "none" when the SpawnResult has none
CaptureNone == [state |-> "none", text |-> <<>>]
CapturePending == [state |-> "pending", text |-> <<>>]
CaptureFulfilled(text) == [state |-> "fulfilled", text |-> text]

\* Buffer.concat(chunks)
RECURSIVE BufferConcat(_)
BufferConcat(cs) == IF cs = <<>> THEN <<>> ELSE Head(cs) \o BufferConcat(Tail(cs))

\* Buffer.concat(chunks).toString() of the end listeners (lines 186, 196)
CapturedText(cs) == Utf8Decode(BufferConcat(cs))

PushChunkKeepLast(cs, chunk) == <<chunk>>
\* chunks.push(chunk) of the data listeners (lines 183, 193)
PushChunk(cs, chunk) == Append(cs, chunk)

Streams == {"stdout", "stderr"}
NoNote == [type |-> "none", code |-> Null, signal |-> Null, error |-> NoError]

\* the chunks a stream emits
ChunkSet == {<<b>> : b \in Bytes}

\* the errors the startProcess / duplicateSelf primitive throws synchronously
SpawnThrows ==
    {[JsObject EXCEPT !.isError = TRUE, !.cls = "Error",
                      !.code = Str(<<"ERR_INVALID_ARG_TYPE">>),
                      !.message = Str(<<"x">>)],
     [JsObject EXCEPT !.isError = TRUE, !.cls = "Error",
                      !.code = Str(<<"ENOENT">>),
                      !.message = Str(<<"spawn", "x", "ENOENT">>)]}

\* the raw errors of the error notifications of a spawned handle
ChildErrors ==
    {[JsObject EXCEPT !.isError = TRUE, !.cls = "Error",
                      !.code = Str(<<"ENOENT">>),
                      !.message = Str(<<"spawn", "x", "ENOENT">>)]}

\* the exit notifications of a spawned handle
ChildExits ==
    {ExitNote(Num(0), Null), ExitNote(Num(1), Null), ExitNote(Null, Str(<<"SIGTERM">>))}

IdleSpawn ==
    /\ sOp = "none"
    /\ sOpts = [captureStdout |-> FALSE, captureStderr |-> FALSE,
                hasStdout |-> FALSE, hasStderr |-> FALSE, throws |-> FALSE]
    /\ sPromise = SPending
    /\ sResult = SResult("pending", NoError)
    /\ child = "none"
    /\ exitPromise = ExitPending
    /\ chunks = [s \in Streams |-> <<>>]
    /\ capture = [s \in Streams |-> CaptureNone]
    /\ emitted = [s \in Streams |-> <<>>]
    /\ ended = [s \in Streams |-> FALSE]
    /\ sFirstExit = NoNote
    /\ sExits = 0
    /\ sErrors = 0

InitSpawn ==
    /\ sOp \in {"spawn", "fork"}
    /\ sOpts \in [captureStdout : BOOLEAN, captureStderr : BOOLEAN,
                  hasStdout : BOOLEAN, hasStderr : BOOLEAN, throws : BOOLEAN]
    /\ sOp = "fork" =>
          ~sOpts.captureStdout /\ ~sOpts.captureStderr /\ ~sOpts.hasStdout
          /\ ~sOpts.hasStderr
    /\ sOpts.throws => ~sOpts.hasStdout /\ ~sOpts.hasStderr
    /\ raw \in IF sOpts.throws THEN SpawnThrows ELSE {RawNull}
    /\ command = Str(<<"test-cmd">>)
    /\ args = Arr(<<"arg1">>)
    /\ mapped = NotYet
    /\ sPromise = SPending
    /\ sResult = SResult("pending", NoError)
    /\ child = "none"
    /\ exitPromise = ExitPending
    /\ chunks = [s \in Streams |-> <<>>]
    /\ capture = [s \in Streams |-> CaptureNone]
    /\ emitted = [s \in Streams |-> <<>>]
    /\ ended = [s \in Streams |-> FALSE]
    /\ sFirstExit = NoNote
    /\ sExits = 0
    /\ sErrors = 0

\* streamOptions.maxBuffer of the spawn calls of the model, in bytes; spawn
\* never reads it
maxBuffer == 1

\* the capture promise spawn sets up for a stream (lines 181-199)
CaptureSetup(requested, exposed) ==
    IF requested /\ exposed THEN CapturePending ELSE CaptureNone

SpawnCallNoResolve ==
    /\ sOp = "spawn" /\ child = "none" /\ sResult.tag = "pending"
    /\ IF sOpts.throws
       THEN /\ sPromise' = Settle(sPromise, SRejected(mapNodeError(raw, command, args)))
            /\ UNCHANGED <<child, capture>>
       ELSE /\ child' = "running"
            /\ capture' = [stdout |-> CaptureSetup(sOpts.captureStdout, sOpts.hasStdout),
                           stderr |-> CaptureSetup(sOpts.captureStderr, sOpts.hasStderr)]
            /\ sPromise' = sPromise
    /\ sResult' = FromSafePromise(sPromise')
    /\ UNCHANGED <<sOp, sOpts, exitPromise, chunks, emitted, ended, sFirstExit,
                   sExits, sErrors>>
    /\ UNCHANGED <<varsClassifier, varsExec, varsWait, varsSync, varsTwo>>

\* spawn(...): the executor runs to its end, and the continuation of
\* fromSafePromise after it
SpawnCall ==
    /\ sOp = "spawn" /\ child = "none" /\ sResult.tag = "pending"
    /\ IF sOpts.throws
       THEN /\ sPromise' = Settle(sPromise, SRejected(mapNodeError(raw, command, args)))
            /\ UNCHANGED <<child, capture>>
       ELSE /\ child' = "running"
            /\ capture' = [stdout |-> CaptureSetup(sOpts.captureStdout, sOpts.hasStdout),
                           stderr |-> CaptureSetup(sOpts.captureStderr, sOpts.hasStderr)]
            /\ sPromise' = Settle(sPromise, SFulfilled)
    /\ sResult' = FromSafePromise(sPromise')
    /\ UNCHANGED <<sOp, sOpts, exitPromise, chunks, emitted, ended, sFirstExit,
                   sExits, sErrors>>
    /\ UNCHANGED <<varsClassifier, varsExec, varsWait, varsSync, varsTwo>>

ForkCallNoResolve ==
    /\ sOp = "fork" /\ child = "none" /\ sResult.tag = "pending"
    /\ IF sOpts.throws
       THEN /\ sPromise' = Settle(sPromise, SRejected(mapNodeError(raw, command, args)))
            /\ UNCHANGED child
       ELSE /\ child' = "running"
            /\ sPromise' = sPromise
    /\ sResult' = FromSafePromise(sPromise')
    /\ UNCHANGED <<sOp, sOpts, exitPromise, chunks, capture, emitted, ended,
                   sFirstExit, sExits, sErrors>>
    /\ UNCHANGED <<varsClassifier, varsExec, varsWait, varsSync, varsTwo>>

\* fork(...): the executor runs to its end
ForkCall ==
    /\ sOp = "fork" /\ child = "none" /\ sResult.tag = "pending"
    /\ IF sOpts.throws
       THEN /\ sPromise' = Settle(sPromise, SRejected(mapNodeError(raw, command, args)))
            /\ UNCHANGED child
       ELSE /\ child' = "running"
            /\ sPromise' = Settle(sPromise, SFulfilled)
    /\ sResult' = FromSafePromise(sPromise')
    /\ UNCHANGED <<sOp, sOpts, exitPromise, chunks, capture, emitted, ended,
                   sFirstExit, sExits, sErrors>>
    /\ UNCHANGED <<varsClassifier, varsExec, varsWait, varsSync, varsTwo>>

\* the handle emits error(e): the error listener of spawn / fork rejects the
\* executor's promise (lines 164-166, 244-246). A fatal error is a failure to
\* create the process: the handle emits no exit after it.
ChildError(e, fatal) ==
    /\ child \in {"running", "exited"}
    /\ fatal => child = "running" /\ sExits = 0
    /\ sExits + sErrors < MaxNotifications
    /\ sErrors' = sErrors + 1
    /\ child' = IF fatal THEN "failed" ELSE child
    /\ sPromise' = Settle(sPromise, SRejected(mapNodeError(e, command, args)))
    /\ sResult' = FromSafePromise(sPromise')
    /\ UNCHANGED <<sOp, sOpts, exitPromise, chunks, capture, emitted, ended,
                   sFirstExit, sExits>>
    /\ UNCHANGED <<varsClassifier, varsExec, varsWait, varsSync, varsTwo>>

ChildExitOverwrites(note) ==
    /\ child \in {"running", "exited"}
    /\ sExits + sErrors < MaxNotifications
    /\ sExits' = sExits + 1
    /\ sFirstExit' = IF sFirstExit = NoNote THEN note ELSE sFirstExit
    /\ child' = "exited"
    /\ exitPromise' = IF sOp = "spawn" THEN ExitFulfilled(note.code, note.signal)
                      ELSE exitPromise
    /\ UNCHANGED <<sOp, sOpts, sPromise, sResult, chunks, capture, emitted, ended,
                   sErrors>>
    /\ UNCHANGED <<varsClassifier, varsExec, varsWait, varsSync, varsTwo>>
ChildExitAfterStreams(note) ==
    /\ child \in {"running", "exited"}
    /\ sExits + sErrors < MaxNotifications
    /\ sExits' = sExits + 1
    /\ sFirstExit' = IF sFirstExit = NoNote THEN note ELSE sFirstExit
    /\ child' = "exited"
    /\ exitPromise' = IF sOp = "spawn" /\ \A s \in Streams : capture[s].state # "pending"
                      THEN Settle(exitPromise, ExitFulfilled(note.code, note.signal))
                      ELSE exitPromise
    /\ UNCHANGED <<sOp, sOpts, sPromise, sResult, chunks, capture, emitted, ended,
                   sErrors>>
    /\ UNCHANGED <<varsClassifier, varsExec, varsWait, varsSync, varsTwo>>
\* the handle emits exit(code, signal): the exit listener of spawn resolves
\* exitPromise (lines 171-173); fork has no exit listener
ChildExit(note) ==
    /\ child \in {"running", "exited"}
    /\ sExits + sErrors < MaxNotifications
    /\ sExits' = sExits + 1
    /\ sFirstExit' = IF sFirstExit = NoNote THEN note ELSE sFirstExit
    /\ child' = "exited"
    /\ exitPromise' = IF sOp = "spawn"
                      THEN Settle(exitPromise, ExitFulfilled(note.code, note.signal))
                      ELSE exitPromise
    /\ UNCHANGED <<sOp, sOpts, sPromise, sResult, chunks, capture, emitted, ended,
                   sErrors>>
    /\ UNCHANGED <<varsClassifier, varsExec, varsWait, varsSync, varsTwo>>

\* every chunk the streams of the handle emitted so far
EmittedCount == Len(emitted["stdout"]) + Len(emitted["stderr"])

StreamExposed(s) == IF s = "stdout" THEN sOpts.hasStdout ELSE sOpts.hasStderr

\* a stream of the handle emits data(chunk): the data listener buffers it
StreamData(s, chunk) ==
    /\ child # "none" /\ StreamExposed(s) /\ ~ended[s]
    /\ EmittedCount < MaxChunks
    /\ emitted' = [emitted EXCEPT ![s] = Append(@, chunk)]
    /\ chunks' = IF capture[s].state # "none"
                 THEN [chunks EXCEPT ![s] = PushChunk(@, chunk)]
                 ELSE chunks
    /\ UNCHANGED <<sOp, sOpts, sPromise, sResult, child, exitPromise, capture, ended,
                   sFirstExit, sExits, sErrors>>
    /\ UNCHANGED <<varsClassifier, varsExec, varsWait, varsSync, varsTwo>>

\* a stream of the handle emits end: the end listener resolves the capture
StreamEnd(s) ==
    /\ child # "none" /\ StreamExposed(s) /\ ~ended[s]
    /\ ended' = [ended EXCEPT ![s] = TRUE]
    /\ capture' = IF capture[s].state = "pending"
                  THEN [capture EXCEPT ![s] = CaptureFulfilled(CapturedText(chunks[s]))]
                  ELSE capture
    /\ UNCHANGED <<sOp, sOpts, sPromise, sResult, child, exitPromise, chunks, emitted,
                   sFirstExit, sExits, sErrors>>
    /\ UNCHANGED <<varsClassifier, varsExec, varsWait, varsSync, varsTwo>>

(***************************************************************************)
(* Two calls in flight at the same time, on two handles. Everything a call *)
(* keeps (its promise, its chunk array, its capture promise) is created    *)
(* inside the call, so each call has a closure of its own.                 *)
(***************************************************************************)
Handles == {1, 2}

ClosureShared(h) == 1
\* the closure of the call on handle h: `new Promise` (lines 159, 169, 279) and
\* `const chunks = []` (line 182) are evaluated once per call
ClosureOf(h) == h

\* the deferred values of the call on handle h
ExitPromiseOf(h) == tPromise[ClosureOf(h)]
CaptureOf(h) == tCapture[ClosureOf(h)]

IdleTwo ==
    /\ tCall = [h \in Handles |-> "none"]
    /\ tPromise = [h \in Handles |-> ExitPending]
    /\ tChunks = [h \in Handles |-> <<>>]
    /\ tCapture = [h \in Handles |-> CaptureNone]
    /\ tFirstNote = [h \in Handles |-> NoNote]
    /\ tFirstExit = [h \in Handles |-> NoNote]
    /\ tEmitted = [h \in Handles |-> <<>>]
    /\ tEnded = [h \in Handles |-> FALSE]

InitTwo == IdleTwo

\* the chunks emitted so far, over both handles
TwoChunks == Len(tEmitted[1]) + Len(tEmitted[2])

\* spawn(...) with stdout capture returns the handle h: exitPromise and the
\* capture promise are created, the listeners are on the handle
TwoSpawnCall(h) ==
    /\ tCall[h] = "none"
    /\ tCall' = [tCall EXCEPT ![h] = "spawn"]
    /\ tPromise' = [tPromise EXCEPT ![ClosureOf(h)] = ExitPending]
    /\ tChunks' = [tChunks EXCEPT ![ClosureOf(h)] = <<>>]
    /\ tCapture' = [tCapture EXCEPT ![ClosureOf(h)] = CapturePending]
    /\ UNCHANGED <<tFirstNote, tFirstExit, tEmitted, tEnded>>
    /\ UNCHANGED <<varsClassifier, varsExec, varsWait, varsSpawn, varsSync>>

\* waitForExit(h): the inner promise is created, the listeners are on the handle
TwoWaitForExitCall(h) ==
    /\ tCall[h] = "none"
    /\ tCall' = [tCall EXCEPT ![h] = "waitForExit"]
    /\ tPromise' = [tPromise EXCEPT ![ClosureOf(h)] = ExitPending]
    /\ UNCHANGED <<tChunks, tCapture, tFirstNote, tFirstExit, tEmitted, tEnded>>
    /\ UNCHANGED <<varsClassifier, varsExec, varsWait, varsSpawn, varsSync>>

\* handle h emits exit(code, signal): the exit listener of the call on h runs
TwoExit(h, note) ==
    /\ tCall[h] # "none"
    /\ tFirstNote' = [tFirstNote EXCEPT ![h] = IF @ = NoNote THEN note ELSE @]
    /\ tFirstExit' = [tFirstExit EXCEPT ![h] = IF @ = NoNote THEN note ELSE @]
    /\ tPromise' =
          [tPromise EXCEPT ![ClosureOf(h)] =
              IF tCall[h] = "spawn"
              THEN Settle(@, ExitFulfilled(note.code, note.signal))
              ELSE Settle(@, OnExit(note.code, note.signal))]
    /\ UNCHANGED <<tCall, tChunks, tCapture, tEmitted, tEnded>>
    /\ UNCHANGED <<varsClassifier, varsExec, varsWait, varsSpawn, varsSync>>

\* handle h emits error(e): the error listener of waitForExit rejects its
\* promise; the error listener of spawn rejects the promise of the result,
\* which is settled since spawn returned
TwoError(h, e) ==
    /\ tCall[h] # "none"
    /\ tFirstNote' = [tFirstNote EXCEPT ![h] = IF @ = NoNote THEN ErrorNote(e) ELSE @]
    /\ tPromise' =
          [tPromise EXCEPT ![ClosureOf(h)] =
              IF tCall[h] = "waitForExit" THEN Settle(@, OnError(e)) ELSE @]
    /\ UNCHANGED <<tCall, tChunks, tCapture, tFirstExit, tEmitted, tEnded>>
    /\ UNCHANGED <<varsClassifier, varsExec, varsWait, varsSpawn, varsSync>>

\* the stdout of handle h emits data(chunk)
TwoData(h, chunk) ==
    /\ tCall[h] = "spawn" /\ ~tEnded[h]
    /\ TwoChunks < MaxChunks
    /\ tEmitted' = [tEmitted EXCEPT ![h] = Append(@, chunk)]
    /\ tChunks' = [tChunks EXCEPT ![ClosureOf(h)] = PushChunk(@, chunk)]
    /\ UNCHANGED <<tCall, tPromise, tCapture, tFirstNote, tFirstExit, tEnded>>
    /\ UNCHANGED <<varsClassifier, varsExec, varsWait, varsSpawn, varsSync>>

\* the stdout of handle h emits end
TwoEnd(h) ==
    /\ tCall[h] = "spawn" /\ ~tEnded[h]
    /\ tEnded' = [tEnded EXCEPT ![h] = TRUE]
    /\ tCapture' =
          [tCapture EXCEPT ![ClosureOf(h)] =
              IF @.state = "pending"
              THEN CaptureFulfilled(CapturedText(tChunks[ClosureOf(h)]))
              ELSE @]
    /\ UNCHANGED <<tCall, tPromise, tChunks, tFirstNote, tFirstExit, tEmitted>>
    /\ UNCHANGED <<varsClassifier, varsExec, varsWait, varsSpawn, varsSync>>

(***************************************************************************)
(* The specifications.                                                     *)
(***************************************************************************)
\* the classifier on every raw failure
InitClassifier == InitClassifierInputs /\ IdleExec /\ IdleWait /\ IdleSpawn /\ IdleSync /\ IdleTwo
NextClassifier == Classify
SpecClassifier == InitClassifier /\ [][NextClassifier]_vars

\* the exec family
InitExecFamily == InitExec /\ IdleWait /\ IdleSpawn /\ IdleSync /\ IdleTwo
NextExec ==
    \/ ExecCall
    \/ ExecFileCall
    \/ ExecSyncCall
    \/ ExecFileSyncCall
SpecExec == InitExecFamily /\ [][NextExec]_vars

\* waitForExit on a handle that emits notifications
InitWaitForExit == IdleClassifier /\ IdleExec /\ InitWait /\ IdleSpawn /\ IdleSync /\ IdleTwo
NextWait ==
    \/ WaitForExitCall
    \/ \E note \in ExitNotes : HandleExit(note)
    \/ \E note \in ErrorNotes : HandleError(note)
SpecWait == InitWaitForExit /\ [][NextWait]_vars

\* spawn and fork, and the handle afterwards
InitSpawnFork == IdleExec /\ IdleWait /\ InitSpawn /\ IdleSync /\ IdleTwo
NextSpawn ==
    \/ SpawnCall
    \/ ForkCall
    \/ \E e \in ChildErrors, fatal \in BOOLEAN : ChildError(e, fatal)
    \/ \E note \in ChildExits : ChildExit(note)
    \/ \E s \in Streams, chunk \in ChunkSet : StreamData(s, chunk)
    \/ \E s \in Streams : StreamEnd(s)
SpecSpawn == InitSpawnFork /\ [][NextSpawn]_vars

\* spawnSync on every result of its primitive
InitSpawnSync == IdleExec /\ IdleWait /\ IdleSpawn /\ InitSync /\ IdleTwo
NextSpawnSync == SpawnSyncCall
SpecSpawnSync == InitSpawnSync /\ [][NextSpawnSync]_vars

\* two calls (spawn or waitForExit) in flight on two handles
InitTwoCalls == IdleClassifier /\ IdleExec /\ IdleWait /\ IdleSpawn /\ IdleSync /\ InitTwo
NextTwoCalls ==
    \/ \E h \in Handles : TwoSpawnCall(h)
    \/ \E h \in Handles : TwoWaitForExitCall(h)
    \/ \E h \in Handles, note \in ChildExits : TwoExit(h, note)
    \/ \E h \in Handles, e \in ChildErrors : TwoError(h, e)
    \/ \E h \in Handles, chunk \in ChunkSet : TwoData(h, chunk)
    \/ \E h \in Handles : TwoEnd(h)
SpecTwoCalls == InitTwoCalls /\ [][NextTwoCalls]_vars

(***************************************************************************)
(* The properties.                                                          *)
(***************************************************************************)
NameIs(e, name) == e.kind = "object" /\ e.isError /\ e.cls = name /\ e.name = Str(<<name>>)

\* C1: for a structured raw failure mapNodeError picks the variant by the fixed
\* cascade, first match wins: a non-empty signal gives ProcessKilled with the
\* signal carried verbatim; else code ENOENT gives ProcessNotFound; else EACCES
\* or EPERM gives PermissionDenied; else ETIMEDOUT gives ProcessTimeout; else a
\* string code starting with ERR_CHILD_PROCESS_ gives SpawnError with the code
\* preserved; else a numeric non-zero code gives NonZeroExit with that exit code
\* and no stdout/stderr. No message rule is consulted when one of these matches.
C1_CodeCascade ==
    (mapped # NotYet /\ raw.kind = "object") =>
        LET sg == Get(raw.signal)
            code == Get(raw.code)
            noSignal == sg.t \in {"undefined", "null"} \/ sg = Str(<<>>)
        IN  /\ ~noSignal =>
                NameIs(mapped, "ProcessKilledError") /\ mapped.signal = sg
            /\ (noSignal /\ code = Str(<<"ENOENT">>)) =>
                NameIs(mapped, "ProcessNotFoundError")
            /\ (noSignal /\ code \in {Str(<<"EACCES">>), Str(<<"EPERM">>)}) =>
                NameIs(mapped, "PermissionDeniedError")
            /\ (noSignal /\ code = Str(<<"ETIMEDOUT">>)) =>
                NameIs(mapped, "ProcessTimeoutError")
            /\ (noSignal /\ code.t = "string" /\ code.s # <<>>
                /\ Head(code.s) = "ERR_CHILD_PROCESS_") =>
                NameIs(mapped, "SpawnError") /\ mapped.code = code
            /\ (noSignal /\ code.t = "number" /\ code.n # 0) =>
                /\ NameIs(mapped, "NonZeroExitError")
                /\ mapped.exitCode = code
                /\ mapped.stdout = Undefined /\ mapped.stderr = Undefined

\* C1's case: a failure with both a signal and code ENOENT is ProcessKilled
C1_Witness ==
    /\ raw.kind = "object"
    /\ raw.signal = Str(<<"SIGTERM">>) /\ raw.code = Str(<<"ENOENT">>)
    /\ raw.message = Str(<<"maxBuffer", "spawn">>)
    /\ NameIs(mapped, "ProcessKilledError") /\ mapped.signal = Str(<<"SIGTERM">>)

\* C2: mapNodeError is total: for every raw failure it returns one ProcessError,
\* without raising, whose tag is one of the eight variants it emits; it never
\* returns InvalidArgument.
C2_Total ==
    mapped # NotYet =>
        /\ mapped.kind = "object" /\ mapped.isError
        /\ mapped.cls \in ProcessErrorName \ {"InvalidArgumentError"}
        /\ mapped.name = Str(<<mapped.cls>>)

\* C2's case: null is classified, to UnknownError
C2_Witness == raw = RawNull /\ NameIs(mapped, "UnknownError")

\* the text of a captured stream carried by a failure: empty when missing
TextOf(v) ==
    CASE v.t = "string" -> v.s
      [] v.t = "buffer" -> Utf8Decode(v.s)
      [] OTHER -> <<>>

IsSyncOp == xOp \in {"execSync", "execFileSync"}

\* C3: a failure with a numeric non-zero status (execSync, execFileSync) or code
\* (exec, execFile) and a stdout field gives Err(NonZeroExitError) built by the
\* wrapper itself: exitCode is that status/code, stdout and stderr are the
\* failure's output as strings, empty when the stream is empty or missing.
C3_NonZeroExitWithOutput ==
    LET n == IF IsSyncOp THEN raw.status ELSE raw.code
    IN  (/\ xResult.tag # "pending" /\ xOutcome.kind = "fail"
         /\ raw.kind = "object" /\ In(raw.stdout)
         /\ n.t = "number" /\ n.n # 0) =>
            /\ xResult.tag = "Err"
            /\ NameIs(xResult.error, "NonZeroExitError")
            /\ xResult.error.exitCode = n
            /\ xResult.error.stdout = Str(TextOf(raw.stdout))
            /\ xResult.error.stderr = Str(TextOf(raw.stderr))
            /\ xResult.error.message =
                  Str(<<"Command failed with exit code ">> \o NumToString(n.n))

\* C3's case: execSync's primitive threw with status 1 and a stdout buffer
C3_Witness ==
    /\ xOp = "execSync" /\ xOutcome.kind = "fail"
    /\ raw.kind = "object" /\ raw.status = Num(1)
    /\ raw.stdout = Buf(<<"c3", "a9">>) /\ raw.stderr = Absent
    /\ xResult.tag = "Err" /\ NameIs(xResult.error, "NonZeroExitError")
    /\ xResult.error.stdout = Str(<<"e'">>) /\ xResult.error.stderr = Str(<<>>)

\* C4: awaiting the result of a wrapper always yields Ok or Err; when the
\* primitive under spawn or fork throws synchronously the awaited result is Err,
\* never a rejected promise.
C4_NeverRejects == sResult.tag \in {"pending", "Ok", "Err"}

\* the first notification waitForExit received
WReceived == wSubscribed /\ Len(wLog) > wSince
WFirst == wLog[wSince + 1]

\* C5: when exit is the first notification waitForExit receives: a non-null
\* non-zero code gives Err(NonZeroExitError) with that exit code and no
\* stdout/stderr, signal or not; else a non-null signal gives
\* Err(ProcessKilledError) with that signal; else Ok with the {code, signal}.
C5_ExitFirst ==
    (WReceived /\ WFirst.type = "exit") =>
        LET code == WFirst.code
            sg == WFirst.signal
        IN  /\ (code # Null /\ code # Num(0)) =>
                /\ wResult.tag = "Err" /\ NameIs(wResult.error, "NonZeroExitError")
                /\ wResult.error.exitCode = code
                /\ wResult.error.stdout = Undefined
                /\ wResult.error.stderr = Undefined
            /\ ((code = Null \/ code = Num(0)) /\ sg # Null) =>
                /\ wResult.tag = "Err" /\ NameIs(wResult.error, "ProcessKilledError")
                /\ wResult.error.signal = sg
            /\ ((code = Null \/ code = Num(0)) /\ sg = Null) =>
                wResult = WResult("Ok", code, sg, NoError)

\* C5's case: exit(1, SIGTERM) came first and the code won
C5_Witness ==
    /\ WReceived /\ WFirst = ExitNote(Num(1), Str(<<"SIGTERM">>))
    /\ wResult.tag = "Err" /\ NameIs(wResult.error, "NonZeroExitError")

\* C6: when error is the first notification waitForExit receives, the result is
\* Err of the error the classifier assigns to the raw error of the notification:
\* at the least it has the variant of mapNodeError(rawError), so that code ENOENT
\* yields ProcessNotFound, EACCES PermissionDenied, ETIMEDOUT ProcessTimeout.
C6_ErrorFirstClassified ==
    (WReceived /\ WFirst.type = "error") =>
        /\ wResult.tag = "Err"
        /\ NameIs(wResult.error, mapNodeError(WFirst.error, Undefined, Undefined).cls)

\* what the first notification alone makes of the result
WFirstOutcome ==
    WaitFromPromise(IF WFirst.type = "exit" THEN OnExit(WFirst.code, WFirst.signal)
                    ELSE OnError(WFirst.error))

\* C7: the result of waitForExit settles at most once and is decided by the
\* first notification it receives alone: before it the result is pending, from
\* it on the result is the Ok or Err of that notification, whatever follows.
C7_FirstNotificationDecides ==
    IF WReceived
    THEN wResult.tag \in {"Ok", "Err"} /\ wResult = WFirstOutcome
    ELSE wResult = WPending

\* C7's case: an exit that gives Ok, then an error notification and an exit
\* with code 1; the result is still the Ok
C7_Witness ==
    /\ WReceived /\ Len(wLog) = wSince + 3
    /\ WFirst = ExitNote(Num(0), Null)
    /\ wLog[wSince + 2].type = "error"
    /\ wLog[wSince + 3] = ExitNote(Num(1), Null)
    /\ wResult = WResult("Ok", Num(0), Null, NoError)

\* C8: spawn's result is Ok from the moment the primitive returned the handle,
\* before any notification, and an error notification of the handle afterwards
\* does not change it.
C8_OkOnceHandleExists ==
    (sOp = "spawn" /\ child # "none") => sResult = SResult("Ok", NoError)

\* C8's case: the handle emitted an error after spawn returned
C8_Witness ==
    /\ sOp = "spawn" /\ child = "failed" /\ sErrors = 1
    /\ sResult = SResult("Ok", NoError)

\* C9: after spawn returned Ok, when the handle emits an error notification and
\* no exit follows, exitPromise settles: it does not stay pending forever. The
\* handle that failed emits no further notification, so exitPromise must be
\* settled by then.
C9_ExitPromiseSettlesOnError ==
    (sOp = "spawn" /\ child = "failed") => exitPromise.state # "pending"

\* C10: with capture enabled on a stream the handle exposes, the capture promise
\* is pending until the stream ends and then holds the text of every chunk the
\* stream emitted since the handle was created, concatenated in arrival order;
\* the empty string when it emitted none.
C10_CaptureIsWholeStream ==
    \A s \in Streams :
        LET requested == IF s = "stdout" THEN sOpts.captureStdout
                         ELSE sOpts.captureStderr
        IN  (sOp = "spawn" /\ child # "none" /\ requested /\ StreamExposed(s)) =>
                IF ended[s]
                THEN capture[s] = CaptureFulfilled(Utf8Decode(BufferConcat(emitted[s])))
                ELSE capture[s] = CapturePending

\* C10's case: a character split over two chunks, then end
C10_Witness ==
    /\ sOpts.captureStdout /\ ended["stdout"]
    /\ emitted["stdout"] = <<(<<"c3">>), (<<"a9">>)>>
    /\ capture["stdout"] = CaptureFulfilled(<<"e'">>)

\* C11: within one spawn call the two captures and the termination outcome are
\* independent. Under every interleaving of stdout data/end, stderr data/end and
\* exit, each of the three is a function of the events of its own source alone:
\* the stdout capture is settled exactly when stdout ended and holds the stdout
\* chunks only, the same for stderr, and exitPromise is settled exactly when the
\* handle emitted an exit, with the first exit's {code, signal}; none of them
\* waits for another.
C11_PipelinesIndependent ==
    (sOp = "spawn" /\ child # "none") =>
        /\ \A s \in Streams :
              LET requested == IF s = "stdout" THEN sOpts.captureStdout
                               ELSE sOpts.captureStderr
              IN  capture[s] =
                    IF ~(requested /\ StreamExposed(s)) THEN CaptureNone
                    ELSE IF ended[s] THEN CaptureFulfilled(CapturedText(emitted[s]))
                    ELSE CapturePending
        /\ exitPromise =
              IF sExits = 0 THEN ExitPending
              ELSE ExitFulfilled(sFirstExit.code, sFirstExit.signal)

\* C11's case: the two streams each emitted one half of a two-byte character;
\* stderr ended and the process exited while the stdout capture is still pending
C11_Witness ==
    /\ sOp = "spawn" /\ sOpts.captureStdout /\ sOpts.captureStderr
    /\ emitted["stdout"] = <<(<<"c3">>)>> /\ emitted["stderr"] = <<(<<"a9">>)>>
    /\ ~ended["stdout"] /\ ended["stderr"]
    /\ capture["stdout"] = CapturePending
    /\ capture["stderr"] = CaptureFulfilled(<<"?">>)
    /\ exitPromise = ExitFulfilled(Num(0), Null)

\* spawnSync was called and its primitive returned a result object
SyncReturned == syncResult.tag # "pending" /\ syncReturns.kind = "returns"

\* C12: spawnSync returns Ok(result) if and only if the result of the primitive
\* has no embedded error, a status that is null or 0, and no signal. The embedded
\* error is checked first: a result with an embedded error is reported as the
\* classification of that error, also when it carries a non-zero status or a
\* signal.
C12_OkIffCleanResult ==
    SyncReturned =>
        /\ syncResult.tag \in {"Ok", "Err"}
        /\ syncResult.tag = "Ok" <=>
              /\ syncReturns.error = <<>>
              /\ syncReturns.status \in {Null, Num(0)}
              /\ syncReturns.signal = Null
        /\ syncResult.tag = "Ok" => syncResult.value = syncReturns
        /\ syncReturns.error # <<>> =>
              syncResult =
                YResult("Err", NoReturns,
                        mapNodeError(syncReturns.error[1], command, args))

\* C12's case: an embedded ENOENT error together with status 1 and a signal is
\* reported as ProcessNotFound
C12_Witness ==
    /\ SyncReturned
    /\ syncReturns.error # <<>> /\ syncReturns.error[1].code = Str(<<"ENOENT">>)
    /\ syncReturns.status = Num(1) /\ syncReturns.signal = Str(<<"SIGTERM">>)
    /\ syncResult.tag = "Err" /\ NameIs(syncResult.error, "ProcessNotFoundError")

\* C13: when the result of the primitive has no embedded error, a null status
\* and a non-null signal, spawnSync returns Err of the ProcessKilled variant
\* carrying that signal.
C13_SignalGivesProcessKilled ==
    (/\ SyncReturned /\ syncReturns.error = <<>>
     /\ syncReturns.status = Null /\ syncReturns.signal # Null) =>
        /\ syncResult.tag = "Err"
        /\ NameIs(syncResult.error, "ProcessKilledError")
        /\ syncResult.error.signal = syncReturns.signal

\* the status branch of spawnSync is taken
SyncStatusCase ==
    /\ SyncReturned /\ syncReturns.error = <<>>
    /\ syncReturns.status # Null /\ syncReturns.status # Num(0)

\* C14, as stated: when the result has no embedded error and a non-null non-zero
\* status, spawnSync returns Err(NonZeroExitError) with exitCode equal to the
\* status and with the result's stdout and stderr attached as strings, signal
\* or not.
C14_StatusOutputAsStrings ==
    SyncStatusCase =>
        /\ syncResult.tag = "Err"
        /\ NameIs(syncResult.error, "NonZeroExitError")
        /\ syncResult.error.exitCode = syncReturns.status
        /\ syncResult.error.stdout = Str(TextOf(syncReturns.stdout))
        /\ syncResult.error.stderr = Str(TextOf(syncReturns.stderr))

\* what spawnSync attaches for a stream of the result: its text, or undefined
\* when the result has no such stream
AttachedText(v) == IF v = Null THEN Undefined ELSE Str(TextOf(v))

\* C14, amended: when the result has no embedded error and a non-null non-zero
\* status, spawnSync returns Err(NonZeroExitError) with exitCode equal to the
\* status, signal or not; each of stdout and stderr is attached as a string when
\* the result has it, and is undefined when the result's stream is null.
C14_StatusOutputWhenPresent ==
    SyncStatusCase =>
        /\ syncResult.tag = "Err"
        /\ NameIs(syncResult.error, "NonZeroExitError")
        /\ syncResult.error.exitCode = syncReturns.status
        /\ syncResult.error.stdout = AttachedText(syncReturns.stdout)
        /\ syncResult.error.stderr = AttachedText(syncReturns.stderr)
        /\ syncResult.error.message =
              Str(<<"Command failed with exit code ">>
                  \o NumToString(syncReturns.status.n))

\* C14's case: status 3 together with a signal, a stdout buffer, no stderr
C14_Witness ==
    /\ SyncStatusCase
    /\ syncReturns.status = Num(3) /\ syncReturns.signal = Str(<<"SIGTERM">>)
    /\ syncReturns.stdout = Buf(<<"c3", "a9">>) /\ syncReturns.stderr = Null
    /\ NameIs(syncResult.error, "NonZeroExitError")
    /\ syncResult.error.exitCode = Num(3)
    /\ syncResult.error.stdout = Str(<<"e'">>)
    /\ syncResult.error.stderr = Undefined

\* C15: fork's result is Ok from the moment the primitive returned the handle:
\* the promise behind it is fulfilled by then, and an error notification the
\* handle emits afterwards, which its own listeners receive, never changes the
\* result to Err.
C15_ForkOkOnceHandleExists ==
    (sOp = "fork" /\ child # "none") =>
        sPromise = SFulfilled /\ sResult = SResult("Ok", NoError)

\* C15's case: the forked handle emitted an error (the module was not found)
\* after fork returned
C15_Witness ==
    /\ sOp = "fork" /\ child = "failed" /\ sErrors = 1 /\ sExits = 0
    /\ sResult = SResult("Ok", NoError)

\* the raw failure is an object that none of the signal and code rules matches
NoCodeRuleMatches ==
    LET sg == Get(raw.signal)
        code == Get(raw.code)
    IN  /\ raw.kind = "object"
        /\ sg.t \in {"undefined", "null"} \/ sg = Str(<<>>)
        /\ code \notin {Str(<<"ENOENT">>), Str(<<"EACCES">>), Str(<<"EPERM">>),
                        Str(<<"ETIMEDOUT">>)}
        /\ ~(code.t = "string" /\ code.s # <<>> /\ Head(code.s) = "ERR_CHILD_PROCESS_")
        /\ ~(code.t = "number" /\ code.n # 0)

\* the message holds the piece of text
Has(m, token) == \E i \in 1..Len(m) : m[i] = token

\* the variant the message-substring rules give, in their order
ByMessage(m) ==
    /\ Has(m, "maxBuffer") => NameIs(mapped, "MaxBufferExceededError")
    /\ (~Has(m, "maxBuffer") /\ (Has(m, "timeout") \/ Has(m, "ETIMEDOUT"))) =>
          NameIs(mapped, "ProcessTimeoutError")
    /\ (~Has(m, "maxBuffer") /\ ~Has(m, "timeout") /\ ~Has(m, "ETIMEDOUT")
        /\ Has(m, "spawn")) =>
          NameIs(mapped, "SpawnError") /\ mapped.code = Undefined

\* C16, as stated: for every raw failure that is an object with a message,
\* native Error instance or not, and that matches none of the signal and code
\* rules, the message-substring rules apply in order: 'maxBuffer' gives
\* MaxBufferExceeded; else 'timeout' or 'ETIMEDOUT' gives ProcessTimeout; else
\* 'spawn' gives SpawnError without a code.
C16_MessageRulesAnyObject ==
    (mapped # NotYet /\ NoCodeRuleMatches /\ Get(raw.message).t = "string") =>
        ByMessage(raw.message.s)

\* C16, amended: the message-substring rules apply, in that order, to every raw
\* failure that is a native Error instance and matches none of the signal and
\* code rules; an object that is no Error instance and matches none of the
\* signal and code rules is classified UnknownError whatever its message.
C16_MessageRulesErrorInstance ==
    (mapped # NotYet /\ NoCodeRuleMatches) =>
        IF raw.isError THEN ByMessage(raw.message.s)
        ELSE NameIs(mapped, "UnknownError")

\* C16's case: an Error instance with a code no rule knows, whose message holds
\* both 'spawn' and 'timeout', is ProcessTimeout
C16_Witness ==
    /\ raw.kind = "object" /\ raw.isError
    /\ raw.signal = Null /\ raw.code = Str(<<"EOTHER">>)
    /\ raw.message = Str(<<"spawn", "timeout">>)
    /\ NameIs(mapped, "ProcessTimeoutError")

\* no message-substring rule matches the message
NoMessageRuleMatches(m) ==
    ~Has(m, "maxBuffer") /\ ~Has(m, "timeout") /\ ~Has(m, "ETIMEDOUT") /\ ~Has(m, "spawn")

\* C17: when no classification rule matches, mapNodeError returns UnknownError
\* with the stringified raw failure as message: String(raw) for a raw failure
\* that is no object (a bare string gives that string, null gives 'null',
\* undefined 'undefined'), and the error's own message for an Error instance.
C17_FallbackMessage ==
    mapped # NotYet =>
        /\ raw.kind = "null" =>
              NameIs(mapped, "UnknownError") /\ mapped.message = Str(<<"null">>)
        /\ raw.kind = "undefined" =>
              NameIs(mapped, "UnknownError") /\ mapped.message = Str(<<"undefined">>)
        /\ raw.kind = "string" =>
              NameIs(mapped, "UnknownError") /\ mapped.message = Str(raw.str)
        /\ (/\ raw.kind = "object" /\ raw.isError /\ NoCodeRuleMatches
            /\ NoMessageRuleMatches(raw.message.s)) =>
              NameIs(mapped, "UnknownError") /\ mapped.message = raw.message

\* C17's case: an Error instance with code 0 and a message no rule knows
C17_Witness ==
    /\ raw.kind = "object" /\ raw.isError
    /\ raw.code = Num(0) /\ raw.signal = Absent /\ raw.message = Str(<<"x", "x">>)
    /\ NameIs(mapped, "UnknownError") /\ mapped.message = Str(<<"x", "x">>)

\* C18: for every structured raw failure whose message is undefined, null or
\* absent, whatever variant it is classified to, the UnknownError fallback
\* included, the message of the classified error is 'Unknown error'.
C18_MissingMessageDefault ==
    (mapped # NotYet /\ raw.kind = "object" /\ Get(raw.message).t \in {"undefined", "null"}) =>
        mapped.message = Str(<<"Unknown error">>)

\* C19: for every structured raw failure whose message is a string, the empty
\* string included, the message of the classified error is that string
\* unchanged, whatever variant it is classified to.
C19_StringMessageUnchanged ==
    (mapped # NotYet /\ raw.kind = "object" /\ Get(raw.message).t = "string") =>
        mapped.message = raw.message

C21_CauseIsRawFailure ==
    (WReceived /\ WFirst.type = "error") =>
        /\ wResult.tag = "Err"
        /\ wResult.error.cause = <<WFirst.error>>

\* the failure carries a non-zero numeric status (execSync, execFileSync) or code
\* (exec, execFile) together with captured output
NonZeroWithOutput ==
    LET n == IF IsSyncOp THEN raw.status ELSE raw.code
    IN  raw.kind = "object" /\ n.t = "number" /\ n.n # 0 /\ In(raw.stdout)

\* the argument list the wrapper has for the classifier: none for exec and
\* execSync
ArgsOfWrapper == IF xOp \in {"exec", "execSync"} THEN Undefined ELSE args

\* C22: in every failure case of execSync, execFileSync, exec and execFile other
\* than a non-zero numeric status/code with captured output attached, the error
\* returned is exactly mapNodeError(rawFailure, command, args); in particular a
\* rejection of exec or execFile with a numeric non-zero code and no captured
\* output is classified by mapNodeError, not built directly.
C22_DelegatesToClassifier ==
    (xResult.tag # "pending" /\ xOutcome.kind = "fail" /\ ~NonZeroWithOutput) =>
        xResult = XResult("Err", Undefined, Undefined,
                          mapNodeError(raw, command, ArgsOfWrapper))

\* the raw error signals a timeout: by the code ETIMEDOUT, or by a message that
\* holds a timeout indicator
SignalsTimeout(e) ==
    \/ Get(e.code) = Str(<<"ETIMEDOUT">>)
    \/ /\ Get(e.message).t = "string"
       /\ Has(e.message.s, "timeout") \/ Has(e.message.s, "ETIMEDOUT")

\* C23: a timeout failure, signalled by the code ETIMEDOUT or by a message with
\* a timeout indicator, is reported by every wrapper as Err of the
\* ProcessTimeout variant. For waitForExit: when the first notification it
\* receives is an error that signals a timeout, the result is
\* Err(ProcessTimeoutError).
C23_TimeoutIsProcessTimeout ==
    (WReceived /\ WFirst.type = "error" /\ SignalsTimeout(WFirst.error)) =>
        /\ wResult.tag = "Err"
        /\ NameIs(wResult.error, "ProcessTimeoutError")

\* C24: on the success path each wrapper returns Ok with the primitive's output:
\* execSync and execFileSync the returned text or buffer unchanged, exec and
\* execFile the stdout and stderr of the completion value as strings; no error
\* is built, the classifier is not called.
C24_SuccessPayload ==
    (xResult.tag # "pending" /\ xOutcome.kind = "ok") =>
        IF IsSyncOp
        THEN xResult = XResult("Ok", xOutcome.stdout, Undefined, NoError)
        ELSE xResult = XResult("Ok", Str(TextOf(xOutcome.stdout)),
                               Str(TextOf(xOutcome.stderr)), NoError)

\* C24's case: exec's primitive completed with a stdout buffer holding a
\* two-byte character and an empty stderr
C24_Witness ==
    /\ xOp = "exec" /\ xOutcome.kind = "ok"
    /\ xOutcome.stdout = Buf(<<"c3", "a9">>) /\ xOutcome.stderr = Str(<<>>)
    /\ xResult = XResult("Ok", Str(<<"e'">>), Str(<<>>), NoError)

\* what the notifications of handle h alone make of the promise of its call
OwnOutcome(h) ==
    IF tCall[h] = "spawn"
    THEN IF tFirstExit[h] = NoNote THEN ExitPending
         ELSE ExitFulfilled(tFirstExit[h].code, tFirstExit[h].signal)
    ELSE IF tFirstNote[h] = NoNote THEN ExitPending
         ELSE IF tFirstNote[h].type = "exit"
              THEN OnExit(tFirstNote[h].code, tFirstNote[h].signal)
              ELSE OnError(tFirstNote[h].error)

\* C25: two spawn or waitForExit calls in flight on different handles share no
\* state: under every interleaving, the termination outcome (spawn) or result
\* (waitForExit) of each call is settled by the notifications of its own handle
\* alone, and the capture of a spawn call holds the chunks of its own handle's
\* stdout alone; nothing of the other handle appears in it or settles it.
C25_CallsIndependent ==
    \A h \in Handles :
        tCall[h] # "none" =>
            /\ ExitPromiseOf(h) = OwnOutcome(h)
            /\ tCall[h] = "spawn" =>
                  CaptureOf(h) = IF tEnded[h]
                                 THEN CaptureFulfilled(CapturedText(tEmitted[h]))
                                 ELSE CapturePending

\* C25's case: two spawn calls; each stdout emitted one half of a two-byte
\* character, handle 1 ended and handle 2 exited, and neither shows in the other
C25_Witness ==
    /\ tCall = [h \in Handles |-> "spawn"]
    /\ tEmitted[1] = <<(<<"c3">>)>> /\ tEmitted[2] = <<(<<"a9">>)>>
    /\ tEnded[1] /\ ~tEnded[2]
    /\ CaptureOf(1) = CaptureFulfilled(<<"?">>) /\ CaptureOf(2) = CapturePending
    /\ ExitPromiseOf(1) = ExitPending
    /\ ExitPromiseOf(2) = ExitFulfilled(Num(1), Null)

\* C26: with streamOptions.maxBuffer set on a spawn call that captures a
\* stream, the data buffered for the captured stream never exceeds maxBuffer.
C26_BufferWithinMaxBuffer ==
    \A s \in Streams :
        (sOp = "spawn" /\ capture[s].state # "none") =>
            Len(BufferConcat(chunks[s])) <= maxBuffer

\* C27: for a spawn call exitPromise resolves at most once, with the (code,
\* signal) of the first exit notification of the handle: it is pending as long
\* as the handle emitted no exit, it is resolved from the first exit on, once
\* resolved no later exit or error notification changes it, and it is never
\* rejected.
C27_ExitPromiseResolvesOnce ==
    /\ [](sOp = "spawn" =>
            /\ exitPromise.state # "rejected"
            /\ exitPromise.state = "pending" <=> sExits = 0
            /\ sExits > 0 => /\ exitPromise.code = sFirstExit.code
                             /\ exitPromise.signal = sFirstExit.signal)
    /\ [][exitPromise.state # "pending" => exitPromise' = exitPromise]_vars

\* C27's case: the handle emitted exit(0, null) first, then another exit and
\* an error; exitPromise still holds the first
C27_Witness ==
    /\ sOp = "spawn" /\ sExits = 2 /\ sErrors = 1
    /\ sFirstExit = ExitNote(Num(0), Null)
    /\ exitPromise = ExitFulfilled(Num(0), Null)

\* the wrapper's primitive failed with an object that carries a non-empty signal
FailedWithSignal ==
    /\ xResult.tag # "pending" /\ xOutcome.kind = "fail"
    /\ raw.kind = "object" /\ Truthy(Get(raw.signal))

\* C28, as stated: for execSync, execFileSync, exec and execFile a raw failure
\* with a non-empty signal is always reported as ProcessKilled carrying that
\* signal, also when it carries a numeric non-zero status/code; the wrapper's
\* variant for any raw failure is the variant mapNodeError assigns to it.
\* (The rejections of exec and execFile with a non-zero code and no captured
\* output are left out here: what happens to them is C22's matter.)
C28_SignalWinsInWrappers ==
    LET n == IF IsSyncOp THEN Get(raw.status) ELSE Get(raw.code)
        codeWithoutOutput == n.t = "number" /\ n.n # 0 /\ ~In(raw.stdout)
    IN  /\ (FailedWithSignal /\ ~codeWithoutOutput) =>
              /\ xResult.tag = "Err"
              /\ NameIs(xResult.error, "ProcessKilledError")
              /\ xResult.error.signal = raw.signal
        /\ (/\ xResult.tag # "pending" /\ xOutcome.kind = "fail"
            /\ raw.kind = "object" /\ ~codeWithoutOutput) =>
              xResult.error.cls = mapNodeError(raw, command, ArgsOfWrapper).cls

\* C28, amended: a raw failure with a non-empty signal is reported as
\* ProcessKilled carrying that signal when it carries no numeric non-zero
\* status (execSync, execFileSync) or code (exec, execFile); when it also
\* carries a numeric non-zero status/code together with captured output, the
\* wrapper's own check runs before the classifier and the failure is reported
\* as NonZeroExit with that exit code.
C28_SignalWinsUnlessDirect ==
    LET n == IF IsSyncOp THEN Get(raw.status) ELSE Get(raw.code)
    IN  FailedWithSignal =>
            /\ xResult.tag = "Err"
            /\ ~(n.t = "number" /\ n.n # 0) =>
                  /\ NameIs(xResult.error, "ProcessKilledError")
                  /\ xResult.error.signal = raw.signal
            /\ NonZeroWithOutput =>
                  /\ NameIs(xResult.error, "NonZeroExitError")
                  /\ xResult.error.exitCode = n

\* C28's case: exec's primitive rejected with a signal, code 1 and a stdout
C28_Witness ==
    /\ xOp = "exec" /\ FailedWithSignal
    /\ raw.signal = Str(<<"SIGTERM">>) /\ raw.code = Num(1)
    /\ raw.stdout = Str(<<"a">>)
    /\ NameIs(xResult.error, "NonZeroExitError")
    /\ xResult.error.exitCode = Num(1)

\* C29: waitForExit settles only in response to an exit or error notification
\* delivered after it subscribed: the result is settled as soon as the handle
\* has emitted one after the call, and it is pending in every state in which
\* none was emitted after the call, also when the handle emitted its exit or
\* error before the call: a handle that emits nothing more leaves it pending
\* forever.
C29_SettlesOnlyAfterSubscription ==
    /\ WReceived => wResult.tag \in {"Ok", "Err"}
    /\ ~WReceived => wResult.tag = "pending" /\ wPromise = ExitPending

\* C29's case: the handle emitted exit(0, null) before waitForExit was called
\* and nothing after it; the result is pending
C29_Witness ==
    /\ wSubscribed /\ wSince = 1 /\ Len(wLog) = 1
    /\ wLog[1] = ExitNote(Num(0), Null)
    /\ wResult = WPending

\* C30: mapNodeError carries the command and the argument list it was given
\* into the classified error unchanged for every variant except UnknownError;
\* an UnknownError has neither a command nor args, only the message and the raw
\* failure.
C30_CommandAndArgsCarried ==
    mapped # NotYet =>
        IF mapped.cls = "UnknownError"
        THEN /\ ~In(mapped.command) /\ ~In(mapped.args)
             /\ mapped.message.t = "string" /\ mapped.cause = <<raw>>
        ELSE mapped.command = command /\ mapped.args = args

\* C30's case: code ENOENT classified with a command and an argument list
C30_Witness ==
    /\ raw.kind = "object" /\ raw.code = Str(<<"ENOENT">>) /\ raw.signal = Absent
    /\ command = Str(<<"test-cmd">>) /\ args = Arr(<<"arg1">>)
    /\ NameIs(mapped, "ProcessNotFoundError")
    /\ mapped.command = Str(<<"test-cmd">>) /\ mapped.args = Arr(<<"arg1">>)

====
